---------------------------- MODULE Spec2Model ----------------------------
(***************************************************************************)
(* Model of kaiju-multi (src/src/kaiju-multi.cpp): the main thread parses  *)
(* FASTA/FASTQ files (optionally paired), pushes one ReadItem per record   *)
(* to a bounded ProducerConsumerQueue, and num_threads ConsumerThreads pop *)
(* and classify them, writing to config->out_stream.                       *)
(*                                                                         *)
(* A character is a one-character string, a line is a sequence of          *)
(* characters (without its '\n'), a file is [lines, nl]: its lines and     *)
(* whether the last line is terminated by '\n'.                            *)
(***************************************************************************)
EXTENDS Integers, Sequences, FiniteSets, Bags, TLC

\* ------------------------------------------------------------------ bounds
MaxThreads == 2      \* num_threads ranges over 1..MaxThreads
MaxPairs == 2        \* fname1_list.size() ranges over 1..MaxPairs
QueueCap == 2        \* capacity of the work queue in the model (500 in main)
MaxChunks == 3       \* a generated input file is at most this many chunks
MaxOpts == 5         \* a generated command line has at most this many options

\* F(v) with v evaluated once: a local variable of the code that holds v
With(v, F(_)) == CHOOSE r \in {F(x) : x \in {v}} : TRUE

\* ------------------------------------------------------- characters, lines
EOFc == "EOF"        \* traits::eof(), the value peek() returns at end of file
NLc == "\n"          \* what peek() sees at the start of an empty line

suffixStartCharacters == {" ", "/", "\t", "\r"}

Letters == {"a", "b", "c", "r", "x", "A", "C", "G", "T", "I", "N"}

\* std::string::find_first_of(suffixStartCharacters): the first index (1-based)
\* holding one of the characters, 0 for npos.
RECURSIVE FindFirstOfFrom(_, _, _)
FindFirstOfFrom(s, chars, i) ==
  IF i > Len(s) THEN 0
  ELSE IF s[i] \in chars THEN i
  ELSE FindFirstOfFrom(s, chars, i + 1)

find_first_of(s, chars) == FindFirstOfFrom(s, chars, 1)

\* the read name without the cut at the first suffix character
ReadName_NoCut(line) == Tail(line)

\* line.erase(line.begin()); n = find_first_of(...); if(n != npos) erase(n)
ReadName(line) ==
  LET t == Tail(line)
      n == find_first_of(t, suffixStartCharacters)
  IN  IF n /= 0 THEN SubSeq(t, 1, n - 1) ELSE t

\* strip(): remove every character that is not alphabetic
RECURSIVE strip(_)
strip(s) ==
  IF s = << >> THEN << >>
  ELSE IF Head(s) \in Letters THEN << Head(s) >> \o strip(Tail(s))
  ELSE strip(Tail(s))

\* ------------------------------------------------------------ input streams
\* A stream is [pos, eof, fail]: pos is the index of the next unread line,
\* eof and fail are the eofbit and failbit of the istream.
NewStream == [pos |-> 1, eof |-> FALSE, fail |-> FALSE]

good(s) == ~s.eof /\ ~s.fail

\* reading line s.pos reaches the end of the file without meeting a '\n'
HitsEOF(f, s) == s.pos = Len(f.lines) /\ ~f.nl

\* std::getline(stream, str): [ok, line, s]. When the sentry fails str is left
\* as it was (old); at end of file str is erased and eofbit|failbit are set.
getline(f, s, old) ==
  IF ~good(s) THEN [ok |-> FALSE, line |-> old, s |-> [s EXCEPT !.fail = TRUE]]
  ELSE IF s.pos > Len(f.lines)
    THEN [ok |-> FALSE, line |-> << >>, s |-> [s EXCEPT !.eof = TRUE, !.fail = TRUE]]
  ELSE [ok |-> TRUE, line |-> f.lines[s.pos],
        s |-> [s EXCEPT !.pos = s.pos + 1, !.eof = HitsEOF(f, s)]]

\* stream.ignore(max, '\n'): skip one line
ignore(f, s) ==
  IF ~good(s) THEN [s EXCEPT !.fail = TRUE]
  ELSE IF s.pos > Len(f.lines) THEN [s EXCEPT !.eof = TRUE]
  ELSE [s EXCEPT !.pos = s.pos + 1, !.eof = HitsEOF(f, s)]

\* stream.peek(): [c, s]
peek(f, s) ==
  IF ~good(s) THEN [c |-> EOFc, s |-> [s EXCEPT !.fail = TRUE]]
  ELSE IF s.pos > Len(f.lines) THEN [c |-> EOFc, s |-> [s EXCEPT !.eof = TRUE]]
  ELSE [c |-> IF f.lines[s.pos] = << >> THEN NLc ELSE f.lines[s.pos][1], s |-> s]

\* while(getline(*in1_file,line)) { if(line.length() == 0) continue; ...
\* the next non-empty line of file1, or ok = FALSE when getline fails
RECURSIVE NextLine1(_, _, _)
NextLine1(f, s, old) ==
  With(getline(f, s, old), LAMBDA g :
    IF ~g.ok THEN g
    ELSE IF Len(g.line) = 0 THEN NextLine1(f, g.s, g.line)
    ELSE g)

\* line = ""; while(line.length() == 0) { if(!getline(*in2_file,line)) fatal }
RECURSIVE NextLine2(_, _, _)
NextLine2(f, s, old) ==
  With(getline(f, s, old), LAMBDA g :
    IF ~g.ok THEN g
    ELSE IF Len(g.line) = 0 THEN NextLine2(f, g.s, g.line)
    ELSE g)

\* while(!(peek()=='>' || peek()==EOF)) { getline(line); sequence.append(line) }
RECURSIVE ReadFastaLines(_, _, _, _)
ReadFastaLines(f, s, acc, old) ==
  With(peek(f, s), LAMBDA p1 :
    IF p1.c = ">" THEN [seq |-> acc, s |-> p1.s, line |-> old]
    ELSE With(peek(f, p1.s), LAMBDA p2 :
      IF p2.c = EOFc THEN [seq |-> acc, s |-> p2.s, line |-> old]
      ELSE With(getline(f, p2.s, old), LAMBDA g :
        With(acc \o g.line, LAMBDA sq : ReadFastaLines(f, g.s, sq, g.line)))))

\* the FASTQ branch skipping one line instead of two after the sequence
ReadFastQ_ThreeLines(f, s, line) ==
  With(ReadName(line), LAMBDA nm :
    With(getline(f, s, nm), LAMBDA g :
      [name |-> nm, seq |-> strip(g.line), s |-> ignore(f, g.s)]))

\* the FASTQ branch: name, sequence line, skip '+' line, skip quality line
ReadFastQ(f, s, line) ==
  With(ReadName(line), LAMBDA nm :
    With(getline(f, s, nm), LAMBDA g :
      [name |-> nm, seq |-> strip(g.line), s |-> ignore(f, ignore(f, g.s))]))

\* the FASTA branch: name, then the lines up to the next '>' or the end
ReadFastA(f, s, line) ==
  With(ReadName(line), LAMBDA nm :
    With(ReadFastaLines(f, s, << >>, nm), LAMBDA r :
      [name |-> nm, seq |-> strip(r.seq), s |-> r.s]))

ReadRecord(f, s, line, isFastQ) ==
  IF isFastQ THEN ReadFastQ(f, s, line) ELSE ReadFastA(f, s, line)

\* the detection accepting every first character that is not '@' as FASTA
FileType_NoBad(line) == IF line[1] = "@" THEN "fastq" ELSE "fasta"

\* the file type the first non-empty line selects
FileType(line) ==
  IF line[1] = "@" THEN "fastq" ELSE IF line[1] /= ">" THEN "bad" ELSE "fasta"

\* the comparison of the read names left out
NamesDiffer_Never(name, name2) == FALSE

\* if(name != line_from_file) fatal
NamesDiffer(name, name2) == name /= name2


\* -------------------------------------------------------------- input files
\* Chunks the input files are built from.
Q_a  == << <<"@", "a">>, <<"A", "C">>, <<"+">>, <<"I", "I">> >>
Q_a1 == << <<"@", "a", "/", "1">>, <<"A">>, <<"+">>, <<"I">> >>
Q_b  == << <<"@", "b">>, <<"G">>, <<"+">>, <<"I">> >>
Q_t  == << <<"@", "b">>, <<"G">> >>
Q_r  == << <<"@", "r", "\r">>, <<"G", "\r">>, <<"+", "\r">>, <<"I", "\r">> >>
F_a  == << <<">", "a">>, <<"A", "C">> >>
F_a2 == << <<">", "a", " ", "2">>, <<"A">>, <<"C", "-", "G">> >>
F_b  == << <<">", "b">>, <<"T">> >>
F_t  == << <<">", "c", "\t", "x">>, <<"T">> >>
Q_e  == << <<"@", "a">>, << >>, <<"A", "C">>, <<"+">>, <<"I", "I">> >>
F_e  == << <<">", "a">>, <<"A">>, << >>, <<"C">> >>
E_l  == << << >> >>
J_l  == << <<"x", "a">> >>

RECURSIVE Flatten(_)
Flatten(cs) == IF cs = << >> THEN << >> ELSE Head(cs) \o Flatten(Tail(cs))

ChunkSeqs(C, n) == UNION {[1..k -> C] : k \in 0..n}

\* files built from at most n chunks of C, every line terminated by '\n'
FilesOf(C, n) == {[lines |-> Flatten(cs), nl |-> TRUE] : cs \in ChunkSeqs(C, n)}

\* the same file without the final '\n' (only when its last line is not empty)
Unterminated(F) ==
  {[lines |-> f.lines, nl |-> FALSE] :
     f \in {g \in F : Len(g.lines) > 0 /\ g.lines[Len(g.lines)] /= << >>}}

NoFile == [lines |-> << >>, nl |-> TRUE]

\* inputs of the pipeline specification: two formats, two names
PipeChunks == {F_a, Q_b}
PipeFiles == FilesOf(PipeChunks, MaxChunks)
PipeInputs(p) ==
  IF p THEN PipeFiles \X PipeFiles ELSE PipeFiles \X {NoFile}

\* inputs of the parser specification
ParseChunks1 ==
  {Q_a, Q_a1, Q_b, Q_t, Q_r, Q_e, F_a, F_a2, F_b, F_t, F_e, E_l, J_l}
ParseFiles1 == FilesOf(ParseChunks1, MaxChunks - 1)
ParseChunks2 == {Q_a1, Q_b, F_a2, E_l, J_l}
ParseFilesP1 == FilesOf(ParseChunks2, MaxChunks - 1)
ParseFilesP2 == FilesOf(ParseChunks2, MaxChunks)
ParseInputs(p) ==
  IF p THEN ParseFilesP1 \X (ParseFilesP2 \cup Unterminated(ParseFilesP2))
  ELSE LET F == ParseFiles1 \cup ParseFilesP2
       IN  (F \cup Unterminated(F)) \X {NoFile}

\* ------------------------------------------------------------- command line
\* An option is [c, arg]: the option character getopt returns and optarg, a
\* sequence of characters (<< >> for an option without argument).
Digits == {"0", "1", "2", "3", "4", "5", "6", "7", "8", "9"}

DigitVal(c) == CHOOSE n \in 0..9 : ToString(n) = c

INT_MAX == 2147483647
INT_MIN == 0 - INT_MAX - 1

\* the characters isspace() accepts in the C locale: blank, \t, \n, \r, \f
\* and the vertical tab \v
Space == {" ", "\t", "\n", "\r", "\f", ""}

\* the first index at or after i of s that holds no element of S, Len(s) + 1
\* when there is none
RunEnd(s, i, S) ==
  LET stops == {k \in i..(Len(s) + 1) : k > Len(s) \/ s[k] \notin S}
  IN  CHOOSE j \in stops : \A k \in stops : j <= k

\* the last index of 1..n that satisfies has, 0 when there is none
LastIn(n, has(_)) ==
  LET found == {j \in 1..n : has(j)}
  IN  IF found = {} THEN 0 ELSE CHOOSE j \in found : \A k \in found : k <= j

\* the digits of s from index i on, accumulated as a negative number within
\* the range of int: [v, big, i] with v the negated value, big whether the
\* value left the range, i the index after the digits
RECURSIVE ParseDigits(_, _, _, _)
ParseDigits(s, i, acc, big) ==
  IF i <= Len(s) /\ s[i] \in Digits
    THEN IF big \/ acc < (INT_MIN + DigitVal(s[i]) + 9) \div 10
           THEN ParseDigits(s, i + 1, acc, TRUE)
           ELSE ParseDigits(s, i + 1, 10 * acc - DigitVal(s[i]), FALSE)
    ELSE [v |-> acc, big |-> big, i |-> i]

\* index of the first character of s at or after i that isspace() rejects
SkipSpace(s, i) == RunEnd(s, i, Space)

\* the number at s[i1..]: decimal digits, negated when neg. A number of more
\* than ten digits after its leading zeros is out of the range of int.
IntAt(s, i1, neg) ==
  LET j == RunEnd(s, i1, Digits)
      z == RunEnd(s, i1, {"0"})
  IN  IF j = i1 THEN [ok |-> "invalid", v |-> 0]
      ELSE IF j - z > 10 THEN [ok |-> "range", v |-> 0]
      ELSE CHOOSE r \in
             {IF d.big \/ (~neg /\ d.v = INT_MIN) THEN [ok |-> "range", v |-> 0]
              ELSE [ok |-> "ok", v |-> IF neg THEN d.v ELSE 0 - d.v] :
                d \in {ParseDigits(SubSeq(s, z, j - 1), 1, 0, FALSE)}} : TRUE

\* std::stoi(optarg): white space, a sign, decimal digits; [ok, v] where ok
\* is "ok", "invalid" (std::invalid_argument) or "range" (std::out_of_range)
stoi(s) ==
  CHOOSE r \in
    {IntAt(s, IF i0 <= Len(s) /\ s[i0] \in {"-", "+"} THEN i0 + 1 ELSE i0,
           i0 <= Len(s) /\ s[i0] = "-") : i0 \in {SkipSpace(s, 1)}} : TRUE

\* A double is [kind, neg, bits, exp]: kind "nan", "inf" or "num"; a number
\* is the odd integer with the binary digits bits (most significant first)
\* times 2^exp, with the sign neg; zero has no bits.
Zero(neg) == [kind |-> "num", neg |-> neg, bits |-> << >>, exp |-> 0]
NoEvalue == Zero(FALSE)

\* the properties of the type double
MANT_DIG == 53
MAX_EXP == 1023
MIN_EXP == 0 - 1022

\* a written exponent of more than nine digits counts as this one: both are
\* out of the range of double for every mantissa an argument can hold
ExpCap == 999999999

\* In the definitions below a value that is used more than once is named by
\* a bound variable: x \in {e} names the value of e.

\* 2 * d and d \div 2 of a decimal numeral d (digit values, most significant
\* first, no leading zero but in <<0>>)
Twice(d) ==
  LET n == Len(d)
      c(i) == IF i <= n /\ d[i] >= 5 THEN 1 ELSE 0
      r == [i \in 1..n |-> ((2 * d[i]) % 10) + c(i + 1)]
  IN  IF c(1) = 1 THEN <<1>> \o r ELSE r \o << >>

Half(d) ==
  LET n == Len(d)
      r == [i \in 1..n |->
              ((IF i > 1 THEN d[i - 1] % 2 ELSE 0) * 10 + d[i]) \div 2]
  IN  IF n > 1 /\ d[1] = 1 THEN SubSeq(r, 2, n) ELSE r \o << >>

\* d * 2^n
RECURSIVE TwiceN(_, _)
TwiceN(d, n) ==
  IF n = 0 THEN d
  ELSE IF n = 1 THEN Twice(d)
  ELSE CHOOSE r \in {TwiceN(x, m) : x \in {TwiceN(d, n \div 2)},
                                    m \in {n - n \div 2}} : TRUE

\* n steps of the conversion of the numeral st.q to binary: each step moves
\* the last binary digit of st.q to the front of st.bits
BitStep(st) ==
  IF st.q = <<0>> THEN st
  ELSE [q |-> Half(st.q), bits |-> <<st.q[Len(st.q)] % 2>> \o st.bits]

RECURSIVE BitsLoop(_, _)
BitsLoop(st, n) ==
  IF n = 0 THEN st
  ELSE IF n = 1 THEN BitStep(st)
  ELSE CHOOSE r \in {BitsLoop(x, m) : x \in {BitsLoop(st, n \div 2)},
                                      m \in {n - n \div 2}} : TRUE

\* the binary digits of the decimal numeral d (less than 4 * Len(d) of them)
ToBits(d) == BitsLoop([q |-> d, bits |-> << >>], 4 * Len(d)).bits

\* D * 10^E as [bits, s, sticky]: the value is (bits + f) * 2^s with
\* 0 <= f < 1, sticky tells f /= 0, and bits has more than MANT_DIG + 1 digits
\* when E < 0
Scaled(D, E) ==
  IF E >= 0
    THEN [bits |-> ToBits(D \o [i \in 1..E |-> 0]), s |-> 0, sticky |-> FALSE]
    ELSE LET k == Len(D) + E
             t == 64 + 4 * (IF k < 1 THEN 1 - k ELSE 0)
         IN  CHOOSE r \in
               {[bits |-> ToBits(SubSeq(P, 1, Len(P) + E)), s |-> 0 - t,
                 sticky |-> \E i \in (Len(P) + E + 1)..Len(P) : P[i] /= 0] :
                  P \in {TwiceN(D, t)}} : TRUE

\* The double nearest to (bits + f) * 2^s, ties to even (bits starts with 1;
\* sticky tells f /= 0): [ok, v] with ok "range" on overflow and on an
\* underflow the library reports. Below the normal numbers the library reports
\* every result that lost a binary digit other than digit MANT_DIG + 1.
Round(neg, bits, s, sticky) ==
  LET L == Len(bits)
      e == L - 1 + s
      bit(j) == IF j <= L THEN bits[j] ELSE 0
      ones(n) == \A j \in 1..n : bit(j) = 1
      more == sticky \/ \E j \in (MANT_DIG + 2)..L : bits[j] = 1
      up == bit(MANT_DIG + 1) = 1 /\ (more \/ bit(MANT_DIG) = 1)
      isOne(j) == bit(j) = 1
      isZero(j) == bit(j) = 0
      num(b, x) == [ok |-> "ok",
                    v |-> [kind |-> "num", neg |-> neg, bits |-> b, exp |-> x]]
      trunc(n) == CHOOSE r \in
                    {num([j \in 1..w |-> bit(j)] \o << >>, e - (w - 1)) :
                       w \in {LastIn(n, isOne)}} : TRUE
      incr == CHOOSE r \in
                {num([j \in 1..z |-> IF j = z THEN 1 ELSE bit(j)] \o << >>,
                     e - (z - 1)) : z \in {LastIn(MANT_DIG, isZero)}} : TRUE
      range == [ok |-> "range", v |-> Zero(neg)]
      keep == MANT_DIG - (MIN_EXP - e)
      lost == IF keep < 0 THEN 1 ELSE keep + 1
  IN  IF e > MAX_EXP THEN range
      ELSE IF e >= MIN_EXP
        THEN IF ~up THEN trunc(MANT_DIG)
             ELSE IF ~ones(MANT_DIG) THEN incr
             ELSE IF e + 1 > MAX_EXP THEN range
             ELSE num(<<1>>, e + 1)
      ELSE IF e = MIN_EXP - 1 /\ ones(MANT_DIG + 1) THEN num(<<1>>, MIN_EXP)
      ELSE IF more \/ \E j \in lost..MANT_DIG : bit(j) = 1
        THEN range
      ELSE trunc(keep)

\* the exponent written at s[from..to-1] (digits), at most ExpCap
ExpOf(s, from, to) ==
  LET z == RunEnd(s, from, {"0"})
  IN  IF to - z > 9 THEN ExpCap
      ELSE 0 - ParseDigits(SubSeq(s, z, to - 1), 1, 0, FALSE).v

\* the exponent at s[b..]: a letter of es, a sign and decimal digits; 0 when
\* none is written
ExpAt(s, b, es) ==
  LET hasE == b <= Len(s) /\ s[b] \in es
      signed == b + 1 <= Len(s) /\ s[b + 1] \in {"+", "-"}
      xs == IF signed THEN b + 2 ELSE b + 1
  IN  IF ~hasE \/ xs > Len(s) THEN 0
      ELSE CHOOSE r \in
             {IF xe = xs THEN 0
              ELSE IF signed /\ s[b + 1] = "-" THEN 0 - ExpOf(s, xs, xe)
              ELSE ExpOf(s, xs, xe) : xe \in {RunEnd(s, xs, Digits)}} : TRUE

\* The mantissa and the exponent of the number at s[i..]: digits of the set
\* ds with at most one '.', then the exponent after a letter of es.
\* [nint, nfrac, dot, exp]: the numbers of digits before and after the '.',
\* the index of the '.' and the exponent.
Numeral(s, i, ds, es) ==
  CHOOSE r \in
    {CHOOSE q \in
       {[nint |-> a - i, nfrac |-> IF b > a THEN b - a - 1 ELSE 0, dot |-> a,
         exp |-> ExpAt(s, b, es)] :
          b \in {IF a <= Len(s) /\ s[a] = "." THEN RunEnd(s, a + 1, ds) ELSE a}} :
       TRUE : a \in {RunEnd(s, i, ds)}} : TRUE

\* the j-th digit of the mantissa of numeral m at s[i..]
MantAt(s, i, m, j) == IF j <= m.nint THEN s[i + j - 1] ELSE s[m.dot + (j - m.nint)]

\* the double nearest to the decimal numeral mant (digit values) times 10^x
DecVal(neg, mant, x) ==
  LET n == Len(mant)
      f == RunEnd(mant, 1, {0})
      nonzero(j) == mant[j] /= 0
      l == LastIn(n, nonzero)
  IN  IF f > n THEN [ok |-> "ok", v |-> Zero(neg)]
      ELSE CHOOSE r \in
             {IF Len(D) + E > 310 \/ Len(D) + E < 0 - 330
                THEN [ok |-> "range", v |-> Zero(neg)]
              ELSE CHOOSE q \in {Round(neg, sc.bits, sc.s, sc.sticky) :
                                   sc \in {Scaled(D, E)}} : TRUE :
                D \in {SubSeq(mant, f, l)}, E \in {x + (n - l)}} : TRUE

\* a decimal number at s[i..]: the nearest double, "invalid" without a digit
DecNum(s, i, neg) ==
  CHOOSE r \in
    {IF m.nint + m.nfrac = 0 THEN [ok |-> "invalid", v |-> Zero(FALSE)]
     ELSE CHOOSE q \in
            {DecVal(neg, mant, m.exp - m.nfrac) :
               mant \in {[j \in 1..(m.nint + m.nfrac) |->
                             DigitVal(MantAt(s, i, m, j))] \o << >>}} : TRUE :
       m \in {Numeral(s, i, Digits, {"e", "E"})}} : TRUE

HexDigits ==
  Digits \cup {"a", "b", "c", "d", "e", "f", "A", "B", "C", "D", "E", "F"}

HexVal(c) ==
  IF c \in Digits THEN DigitVal(c)
  ELSE CASE c \in {"a", "A"} -> 10 [] c \in {"b", "B"} -> 11
         [] c \in {"c", "C"} -> 12 [] c \in {"d", "D"} -> 13
         [] c \in {"e", "E"} -> 14 [] c \in {"f", "F"} -> 15

\* the binary digits of the hexadecimal numeral mant (digit values)
HexBits(mant) ==
  [j \in 1..(4 * Len(mant)) |->
     CASE (j - 1) % 4 = 0 -> mant[(j - 1) \div 4 + 1] \div 8
       [] (j - 1) % 4 = 1 -> (mant[(j - 1) \div 4 + 1] \div 4) % 2
       [] (j - 1) % 4 = 2 -> (mant[(j - 1) \div 4 + 1] \div 2) % 2
       [] OTHER -> mant[(j - 1) \div 4 + 1] % 2] \o << >>

\* the double nearest to the binary numeral all times 2^x
BinVal(neg, all, x) ==
  CHOOSE r \in
    {IF f > Len(all) THEN [ok |-> "ok", v |-> Zero(neg)]
     ELSE CHOOSE q \in {Round(neg, b, x, FALSE) :
                          b \in {SubSeq(all, f, Len(all))}} : TRUE :
       f \in {RunEnd(all, 1, {0})}} : TRUE

\* a hexadecimal number at s[i..], after its "0x": the nearest double
HexNum(s, i, neg) ==
  CHOOSE r \in
    {CHOOSE q \in
       {BinVal(neg, all, m.exp - 4 * m.nfrac) :
          all \in {HexBits([j \in 1..(m.nint + m.nfrac) |->
                              HexVal(MantAt(s, i, m, j))] \o << >>)}} : TRUE :
       m \in {Numeral(s, i, HexDigits, {"p", "P"})}} : TRUE

\* the number at s[i1..], with the sign neg: "nan" or "inf" in any case, a
\* hexadecimal number after "0x" or a decimal number
DoubleAt(s, i1, neg) ==
  LET at(i, S) == i <= Len(s) /\ s[i] \in S
      word(x, y, z) == at(i1, x) /\ at(i1 + 1, y) /\ at(i1 + 2, z)
      hex == /\ at(i1, {"0"}) /\ at(i1 + 1, {"x", "X"})
             /\ \/ at(i1 + 2, HexDigits)
                \/ at(i1 + 2, {"."}) /\ at(i1 + 3, HexDigits)
  IN  IF word({"n", "N"}, {"a", "A"}, {"n", "N"})
        THEN [ok |-> "ok",
              v |-> [kind |-> "nan", neg |-> neg, bits |-> << >>, exp |-> 0]]
      ELSE IF word({"i", "I"}, {"n", "N"}, {"f", "F"})
        THEN [ok |-> "ok",
              v |-> [kind |-> "inf", neg |-> neg, bits |-> << >>, exp |-> 0]]
      ELSE IF hex THEN HexNum(s, i1 + 2, neg)
      ELSE DecNum(s, i1, neg)

\* std::stod(optarg): white space, a sign and a number; [ok, v] where ok is
\* "ok", "invalid" (std::invalid_argument) or "range" (std::out_of_range)
stod(s) ==
  CHOOSE r \in
    {CHOOSE q \in {DoubleAt(s, i1, i0 <= Len(s) /\ s[i0] = "-") :
        i1 \in {IF i0 <= Len(s) /\ s[i0] \in {"-", "+"} THEN i0 + 1 ELSE i0}} :
       TRUE : i0 \in {SkipSpace(s, 1)}} : TRUE

\* x <= 0.0 and x > 0.0 on doubles: both are false of a NaN
LeqZero(x) ==
  \/ x.kind = "num" /\ (x.neg \/ x.bits = << >>)
  \/ x.kind = "inf" /\ x.neg

GtZero(x) ==
  \/ x.kind = "num" /\ ~x.neg /\ x.bits /= << >>
  \/ x.kind = "inf" /\ ~x.neg

\* s.find(",", from): the first index at or after from holding c, 0 for npos
RECURSIVE find(_, _, _)
find(s, c, from) ==
  IF from > Len(s) THEN 0
  ELSE IF s[from] = c THEN from
  ELSE find(s, c, from + 1)

\* fname is not added to the list
SkipName(fname) == Len(fname) = 0 \/ fname = <<",">>

\* lines 216-229: the names of a comma-separated list, empty names skipped
RECURSIVE SplitFrom(_, _, _)
SplitFrom(s, begin, acc) ==
  LET pos == find(s, ",", begin)
      fname == IF pos = 0 THEN SubSeq(s, begin, Len(s)) ELSE SubSeq(s, begin, pos - 1)
      acc2 == IF SkipName(fname) THEN acc ELSE Append(acc, fname)
  IN  IF pos = 0 THEN acc2 ELSE SplitFrom(s, pos + 1, acc2)

SplitList(s) == SplitFrom(s, 1, << >>)

\* the Config object after its construction
DefaultConfig ==
  [mode |-> "greedy", seed_length |-> 7, min_fragment_length |-> 11,
   min_score |-> 65, mismatches |-> 3, min_Evalue |-> NoEvalue,
   use_Evalue |-> FALSE, input_is_protein |-> FALSE, SEG |-> TRUE,
   debug |-> FALSE, verbose |-> FALSE]

Opt(c, arg) == [c |-> c, arg |-> arg]

\* a list of n file names
RECURSIVE ListOf(_)
ListOf(n) ==
  IF n = 0 THEN << >>
  ELSE IF n = 1 THEN <<"a">>
  ELSE ListOf(n - 1) \o <<",", "a">>

\* the options the generated command lines are made of
Options ==
  {Opt("t", <<"n">>), Opt("f", <<"f">>),
   Opt("i", ListOf(1)), Opt("i", ListOf(2)),
   Opt("j", ListOf(1)), Opt("j", ListOf(2)),
   Opt("o", ListOf(1)), Opt("o", ListOf(2)),
   Opt("p", << >>), Opt("X", << >>), Opt("h", << >>), Opt("?", << >>),
   Opt("v", << >>), Opt("d", << >>),
   Opt("a", <<"m", "e", "m">>), Opt("a", <<"g", "r", "e", "e", "d", "y">>),
   Opt("a", <<"x">>),
   Opt("E", <<"1">>), Opt("E", <<"0", ".", "5">>), Opt("E", <<"0">>),
   Opt("E", <<"n", "a", "n">>), Opt("E", <<"x">>),
   Opt("E", <<"1", "e", "-", "5">>), Opt("E", <<"1", "e", "-", "4", "0", "0">>),
   Opt("l", <<"6">>), Opt("l", <<"\t", "8">>), Opt("l", <<"x">>),
   Opt("s", <<"0">>), Opt("s", <<"1">>),
   Opt("m", <<"0">>), Opt("m", <<"1">>),
   Opt("e", <<"-", "1">>), Opt("e", <<"0">>),
   Opt("z", <<"0">>), Opt("z", <<ToString(MaxThreads)>>), Opt("z", <<"x">>),
   Opt("z", <<"9", "9", "9", "9", "9", "9", "9", "9", "9", "9", "9">>)}

\* std::stod on the arguments of Options, computed once
StodOfOptions == [a \in {o.arg : o \in Options} |-> stod(a)]
Stod(a) == IF a \in DOMAIN StodOfOptions THEN StodOfOptions[a] ELSE stod(a)

\* ------------------------------------------------------------------- state
VARIABLES
  paired,          \* -j was given
  useOut,          \* output_filename.length() > 0
  num_threads,     \* -z
  verbose, debug,  \* -v, -d
  nFiles,          \* fname1_list.size()
  config,          \* the Config object
  nodes_filename, fmi_filename, in1_filename, in2_filename, output_filename,
  nopts,           \* number of options getopt has returned
  given,           \* history: the options given, the last one of each character
  pc,              \* position of the main thread
  i_files,         \* loop counter of the file list (0-based)
  file1, file2,    \* contents of the current input files
  in1, in2,        \* their streams
  firstline_file1, firstline_file2, isFastQ_file1, isFastQ_file2,
  item,            \* the ReadItem built by the parser and not yet pushed
  queue,           \* myWorkQueue: [alive, items, closed]
  threads,         \* deque of started, not yet joined threads
  cthread,         \* ConsumerThread objects: [st, item]
  out_stream,      \* config->out_stream: 0 is std::cout, k the k-th output file
  ofile,           \* state of the output files: "none", "open", "closed"
  flushed,         \* per stream: nothing written since the last flush()
  written,         \* per stream: the file pairs whose lines were written to it
  worker_failed,   \* the shared flag a worker sets when it reports a fatal
                   \* error
  exit_status,     \* -1 while the process runs
  err,             \* the fatal error that ended the run, "" for none
  warned,          \* the warning of line 473 was printed for the current pair
  pushed,          \* history: ReadItems pushed to the current queue
  parsed,          \* history: [h1, h2, item] of every record (pair) parsed into
                   \* a ReadItem: the header lines read and the item built
  consumed,        \* history: bag of ReadItems classified from the current queue
  nclosed,         \* history: calls of pushedLast() on the current queue
  lastHdr,         \* history: the header lines <<file1, file2>> read by the last
                   \* iteration of the loop around file1 (<< >> for none read)
  file2Rest        \* history: the first non-empty line of file2 that was unread
                   \* when the loop around file1 ended (<< >> for none)

vars == << paired, useOut, num_threads, verbose, debug, nFiles, config, nodes_filename,
           fmi_filename, in1_filename, in2_filename, output_filename, nopts,
           given, pc, i_files, file1, file2, in1,
           in2, firstline_file1, firstline_file2, isFastQ_file1, isFastQ_file2,
           item, queue, threads, cthread, out_stream, ofile, flushed, written,
           worker_failed, exit_status, err, warned, pushed, parsed, consumed,
           nclosed, lastHdr, file2Rest >>

cmdline == << paired, useOut, num_threads, verbose, debug, nFiles, config, nodes_filename,
              fmi_filename, in1_filename, in2_filename, output_filename, nopts,
              given >>
parser == << file1, file2, in1, in2, firstline_file1, firstline_file2,
             isFastQ_file1, isFastQ_file2 >>
outputs == << out_stream, ofile, flushed, written >>
history == << pushed, parsed, consumed, nclosed, lastHdr, file2Rest >>

NoItem == [name |-> << >>, seq1 |-> << >>, seq2 |-> << >>, paired |-> FALSE]
NoThread == [st |-> "none", item |-> NoItem]
NoQueue == [alive |-> FALSE, items |-> << >>, closed |-> FALSE]

Running == exit_status = -1

\* the stream the lines of file pair i (0-based) belong to
StreamOf(i) == IF useOut THEN i + 1 ELSE 0

\* the variables of the loop around the file list before its first iteration
InitLoop ==
  /\ i_files = 0
  /\ file1 = NoFile /\ file2 = NoFile
  /\ in1 = NewStream /\ in2 = NewStream
  /\ firstline_file1 = TRUE /\ firstline_file2 = TRUE
  /\ isFastQ_file1 = FALSE /\ isFastQ_file2 = FALSE
  /\ item = NoItem
  /\ queue = NoQueue
  /\ threads = << >>
  /\ cthread = [w \in 1..MaxThreads |-> NoThread]
  /\ out_stream = 0
  /\ ofile = [k \in 1..MaxPairs |-> "none"]
  /\ flushed = [k \in 0..MaxPairs |-> TRUE]
  /\ written = [k \in 0..MaxPairs |-> {}]
  /\ worker_failed = FALSE
  /\ exit_status = -1
  /\ err = ""
  /\ warned = FALSE
  /\ pushed = << >> /\ parsed = << >> /\ consumed = EmptyBag /\ nclosed = 0
  /\ lastHdr = << << >>, << >> >> /\ file2Rest = << >>

\* a command line that selects p, u, n and z for paired, useOut, nFiles and
\* num_threads
ArgsFor(p, u, n, z) ==
  {Opt("t", <<"n">>), Opt("f", <<"f">>), Opt("i", ListOf(n)),
   Opt("z", <<ToString(z)>>)}
  \cup (IF p THEN {Opt("j", ListOf(n))} ELSE {})
  \cup (IF u THEN {Opt("o", ListOf(n))} ELSE {})

\* the state at the loop around the file list (line 301), after a command
\* line that was accepted
Init ==
  /\ paired \in BOOLEAN
  /\ useOut \in BOOLEAN
  /\ num_threads \in 1..MaxThreads
  /\ verbose = FALSE /\ debug = FALSE
  /\ nFiles \in 1..MaxPairs
  /\ config = DefaultConfig
  /\ nodes_filename = <<"n">> /\ fmi_filename = <<"f">>
  /\ in1_filename = ListOf(nFiles)
  /\ in2_filename = IF paired THEN ListOf(nFiles) ELSE << >>
  /\ output_filename = IF useOut THEN ListOf(nFiles) ELSE << >>
  /\ given = ArgsFor(paired, useOut, nFiles, num_threads)
  /\ nopts = Cardinality(given)
  /\ pc = "start"
  /\ InitLoop

\* the error messages of the fatal errors
MsgOpenOut == "Could not open file for writing"
MsgOpenIn == "Could not open file"
MsgDetect1 == "Auto-detection of file type for file1 failed"
MsgDetect2 == "Auto-detection of file type for file2 failed"
MsgNames == "Read names are not identical between the two input files"
MsgFile1More == "file1 contains more reads then file2"
ParseErrors == {MsgDetect1, MsgDetect2, MsgNames, MsgFile1More}

\* the error messages of the command line checks, each followed by usage()
MsgMode == "-a must be a valid mode."
MsgHelp == "usage"
MsgSeed == "Seed length must be >= 7."
MsgScore == "Min Score (-s) must be greater than 0."
MsgFragment == "Min fragment length (-m) must be greater than 0."
MsgMismatches == "Number of mismatches must be >= 0."
MsgEvalue == "E-value threshold must be greater than 0."
MsgThreads == "Number of threads (-z) must be greater than 0."
MsgNodes == "Please specify the location of the nodes.dmp file, using the -t option."
MsgFmi == "Please specify the location of the FMI file, using the -f option."
MsgInput == "Please specify the location of the input file, using the -i option."
MsgProtein == "Protein input only supports one input file."
MsgEvalueMode == "E-value calculation is only available in Greedy mode."
MsgLists == "Length of input/output file lists differs"

\* exit(EXIT_FAILURE) on the main thread: the process ends, threads included
Fatal(msg) ==
  /\ pc' = "exit"
  /\ exit_status' = 1
  /\ err' = msg
  /\ UNCHANGED queue

\* ------------------------------------------------------------ configuration
\* lines 163-176, case 'E': x is the result of std::stod(optarg), b the values
\* of the variables before
EvalueEffect(b, x) ==
  IF x.ok /= "ok" THEN b
  ELSE IF LeqZero(x.v)
    THEN [b EXCEPT !.config.min_Evalue = x.v, !.err = MsgEvalue]
  ELSE [b EXCEPT !.config.min_Evalue = x.v, !.config.use_Evalue = TRUE]

\* The switch of lines 75-192 on option o: the values of the variables it
\* writes and err, the message of the error that ends the run ("" for none).
\* An exception of stoi or stod is caught and leaves the variables as they are.
OptEffect(o) ==
  LET b == [config |-> config, num_threads |-> num_threads, paired |-> paired,
            verbose |-> verbose, debug |-> debug,
            nodes |-> nodes_filename, fmi |-> fmi_filename,
            in1 |-> in1_filename, in2 |-> in2_filename,
            out |-> output_filename, err |-> ""]
      n == stoi(o.arg)
  IN  CASE o.c = "a" ->
             IF o.arg = <<"m", "e", "m">>
               THEN [b EXCEPT !.config.mode = "mem"]
             ELSE IF o.arg = <<"g", "r", "e", "e", "d", "y">>
               THEN [b EXCEPT !.config.mode = "greedy"]
             ELSE [b EXCEPT !.err = MsgMode]
        [] o.c = "h" -> [b EXCEPT !.err = MsgHelp]
        [] o.c = "d" -> [b EXCEPT !.debug = TRUE]
        [] o.c = "v" -> [b EXCEPT !.verbose = TRUE]
        [] o.c = "p" -> [b EXCEPT !.config.input_is_protein = TRUE]
        [] o.c = "x" -> [b EXCEPT !.config.SEG = TRUE]
        [] o.c = "X" -> [b EXCEPT !.config.SEG = FALSE]
        [] o.c = "o" -> [b EXCEPT !.out = o.arg]
        [] o.c = "f" -> [b EXCEPT !.fmi = o.arg]
        [] o.c = "t" -> [b EXCEPT !.nodes = o.arg]
        [] o.c = "i" -> [b EXCEPT !.in1 = o.arg]
        [] o.c = "j" -> [b EXCEPT !.in2 = o.arg, !.paired = TRUE]
        [] o.c = "l" ->
             IF n.ok /= "ok" THEN b
             ELSE IF n.v < 7 THEN [b EXCEPT !.err = MsgSeed]
             ELSE [b EXCEPT !.config.seed_length = n.v]
        [] o.c = "s" ->
             IF n.ok /= "ok" THEN b
             ELSE IF n.v <= 0 THEN [b EXCEPT !.err = MsgScore]
             ELSE [b EXCEPT !.config.min_score = n.v]
        [] o.c = "m" ->
             IF n.ok /= "ok" THEN b
             ELSE IF n.v <= 0 THEN [b EXCEPT !.err = MsgFragment]
             ELSE [b EXCEPT !.config.min_fragment_length = n.v]
        [] o.c = "e" ->
             IF n.ok /= "ok" THEN b
             ELSE IF n.v < 0 THEN [b EXCEPT !.err = MsgMismatches]
             ELSE [b EXCEPT !.config.mismatches = n.v]
        [] o.c = "E" -> EvalueEffect(b, Stod(o.arg))
        [] o.c = "z" ->
             IF n.ok /= "ok" THEN b
             ELSE IF n.v <= 0 THEN [b EXCEPT !.num_threads = n.v, !.err = MsgThreads]
             ELSE [b EXCEPT !.num_threads = n.v]
        [] OTHER -> [b EXCEPT !.err = MsgHelp]

\* lines 74-193: getopt returns the next option of the command line
GetOpt(o) ==
  /\ Running /\ pc = "getopt" /\ nopts < MaxOpts
  /\ nopts' = nopts + 1
  /\ given' = {g \in given : g.c /= o.c} \cup {o}
  /\ \E r \in {OptEffect(o)} :
       /\ config' = r.config /\ num_threads' = r.num_threads
       /\ paired' = r.paired
       /\ verbose' = r.verbose /\ debug' = r.debug
       /\ nodes_filename' = r.nodes /\ fmi_filename' = r.fmi
       /\ in1_filename' = r.in1 /\ in2_filename' = r.in2
       /\ output_filename' = r.out
       /\ useOut' = (Len(r.out) > 0)
       /\ IF r.err /= "" THEN Fatal(r.err)
          ELSE UNCHANGED << pc, exit_status, err, queue >>
  /\ UNCHANGED << worker_failed, nFiles, i_files, parser, item, threads, cthread, outputs,
                  warned, history >>

\* the checks of lines 194-198 without the check of the E-value mode
ArgError_NoModeCheck ==
  IF Len(nodes_filename) = 0 THEN MsgNodes
  ELSE IF Len(fmi_filename) = 0 THEN MsgFmi
  ELSE IF Len(in1_filename) = 0 THEN MsgInput
  ELSE IF paired /\ config.input_is_protein THEN MsgProtein
  ELSE ""

\* lines 194-198: the first check that fails ("" for none)
ArgError ==
  IF Len(nodes_filename) = 0 THEN MsgNodes
  ELSE IF Len(fmi_filename) = 0 THEN MsgFmi
  ELSE IF Len(in1_filename) = 0 THEN MsgInput
  ELSE IF paired /\ config.input_is_protein THEN MsgProtein
  ELSE IF config.use_Evalue /\ config.mode /= "greedy" THEN MsgEvalueMode
  ELSE ""

\* lines 193-198: getopt returns -1; mandatory and conflicting options
EndOpts ==
  /\ Running /\ pc = "getopt"
  /\ IF ArgError /= "" THEN Fatal(ArgError)
     ELSE pc' = "lists" /\ UNCHANGED << exit_status, err, queue >>
  /\ UNCHANGED << worker_failed, cmdline, i_files, parser, item, threads, cthread, outputs,
                  warned, history >>

\* lines 260-263: the condition of the list length check
ListsDiffer(n1, n2, nout) ==
  \/ /\ Len(output_filename) > 0
     /\ \/ paired /\ (n1 /= n2 \/ n1 /= nout)
        \/ ~paired /\ n1 /= nout
  \/ Len(output_filename) = 0 /\ paired /\ n1 /= n2

\* lines 215-266: split the three lists and compare their lengths
CheckLists ==
  /\ Running /\ pc = "lists"
  /\ nFiles' = Len(SplitList(in1_filename))
  /\ IF ListsDiffer(Len(SplitList(in1_filename)), Len(SplitList(in2_filename)),
                    Len(SplitList(output_filename)))
       THEN Fatal(MsgLists)
       ELSE pc' = "readable" /\ UNCHANGED << exit_status, err, queue >>
  /\ UNCHANGED << worker_failed, paired, useOut, num_threads, verbose, debug,
                  config, nodes_filename, fmi_filename, in1_filename, in2_filename, output_filename,
                  nopts, given, i_files, parser, item, threads, cthread,
                  outputs, warned, history >>

\* lines 268-280: every input file is opened once; an open can fail
CheckReadable ==
  /\ Running /\ pc = "readable"
  /\ \/ pc' = "database" /\ UNCHANGED << exit_status, err, queue >>
     \/ /\ Len(SplitList(in1_filename)) + Len(SplitList(in2_filename)) > 0
        /\ Fatal(MsgOpenIn)
  /\ UNCHANGED << worker_failed, cmdline, i_files, parser, item, threads, cthread, outputs,
                  warned, history >>

\* lines 282-301: copy debug and verbose to the Config object, read the
\* taxonomy (the open can fail) and the index, set out_stream to std::cout and
\* enter the loop around the file list
LoadDatabase ==
  /\ Running /\ pc = "database"
  /\ config' = [config EXCEPT !.debug = debug, !.verbose = verbose]
  /\ \/ /\ out_stream' = 0
        /\ IF nFiles > 0
             THEN pc' = "start" /\ exit_status' = exit_status
             ELSE pc' = "done" /\ exit_status' = 0
        /\ UNCHANGED << err, queue >>
     \/ Fatal(MsgOpenIn) /\ UNCHANGED out_stream
  /\ UNCHANGED << worker_failed, paired, useOut, num_threads, verbose, debug,
                  nFiles, nodes_filename, fmi_filename, in1_filename,
                  in2_filename, output_filename, nopts, given, i_files,
                  parser, item, threads, cthread, ofile, flushed, written,
                  warned, history >>

\* ------------------------------------------------------------- main thread
\* OpenOutput with line 319 (config->out_stream = read2id_file) left out
OpenOutput_NoAssign ==
  /\ Running /\ pc = "start"
  /\ IF useOut
       THEN \E ok \in BOOLEAN :
              IF ok
                THEN /\ ofile' = [ofile EXCEPT ![i_files + 1] = "open"]
                     /\ pc' = "queue"
                     /\ UNCHANGED << exit_status, err, queue, out_stream >>
                ELSE /\ Fatal(MsgOpenOut)
                     /\ UNCHANGED << ofile, out_stream >>
       ELSE /\ pc' = "queue"
            /\ UNCHANGED << ofile, out_stream, exit_status, err, queue >>
  /\ UNCHANGED << worker_failed, cmdline, i_files, parser, item, threads, cthread, flushed,
                  written, warned, history >>

\* lines 313-320: open the output file of this pair and make it the out_stream
OpenOutput ==
  /\ Running /\ pc = "start"
  /\ IF useOut
       THEN \E ok \in BOOLEAN :
              IF ok
                THEN /\ ofile' = [ofile EXCEPT ![i_files + 1] = "open"]
                     /\ out_stream' = i_files + 1
                     /\ pc' = "queue"
                     /\ UNCHANGED << exit_status, err, queue >>
                ELSE /\ Fatal(MsgOpenOut)
                     /\ UNCHANGED << ofile, out_stream >>
       ELSE /\ pc' = "queue"
            /\ UNCHANGED << ofile, out_stream, exit_status, err, queue >>
  /\ UNCHANGED << worker_failed, cmdline, i_files, parser, item, threads, cthread, flushed,
                  written, warned, history >>

\* line 322: myWorkQueue = new ProducerConsumerQueue<ReadItem*>(500)
NewQueue ==
  /\ Running /\ pc = "queue"
  /\ queue' = [alive |-> TRUE, items |-> << >>, closed |-> FALSE]
  /\ pushed' = << >> /\ parsed' = << >> /\ consumed' = EmptyBag /\ nclosed' = 0
  /\ lastHdr' = << << >>, << >> >> /\ file2Rest' = << >>
  /\ warned' = FALSE
  /\ pc' = "threads"
  /\ UNCHANGED << worker_failed, cmdline, i_files, parser, item, threads, cthread, outputs,
                  exit_status, err >>

\* the loop bound of line 325: another thread is to be started
MoreThreads(n) == n < num_threads

\* lines 325-329: one iteration of the loop that starts the ConsumerThreads
StartThread ==
  /\ Running /\ pc = "threads"
  /\ IF MoreThreads(Len(threads))
       THEN /\ threads' = Append(threads, Len(threads) + 1)
            /\ cthread' = [cthread EXCEPT ![Len(threads) + 1] =
                             [st |-> "running", item |-> NoItem]]
            /\ pc' = "threads"
       ELSE /\ pc' = "openin"
            /\ UNCHANGED << threads, cthread >>
  /\ UNCHANGED << worker_failed, cmdline, i_files, parser, item, queue, outputs, exit_status,
                  err, warned, history >>

\* lines 331-356: open the input files (the open can fail) and reset the locals
OpenInputs(S) ==
  /\ Running /\ pc = "openin"
  /\ \/ \E fp \in S :
          /\ file1' = fp[1] /\ file2' = fp[2]
          /\ in1' = NewStream /\ in2' = NewStream
          /\ firstline_file1' = TRUE /\ firstline_file2' = TRUE
          /\ isFastQ_file1' = FALSE /\ isFastQ_file2' = FALSE
          /\ pc' = "parse"
          /\ UNCHANGED << exit_status, err, queue >>
     \/ /\ Fatal(MsgOpenIn)
        /\ UNCHANGED parser
  /\ UNCHANGED << worker_failed, cmdline, i_files, item, threads, cthread, outputs, warned,
                  history >>

\* The file type of the record that starts with line: detected from the first
\* non-empty line of the file, kept afterwards.
TypeOf(first, fq, line) ==
  IF first THEN FileType(line) ELSE IF fq THEN "fastq" ELSE "fasta"

\* ReadMate without the check of line 407: at the end of file2 the read is
\* given an empty mate
ReadMate_NoEndCheck(f2, s2, first2, fq2, name) ==
  With(NextLine2(f2, s2, << >>), LAMBDA g2 :
    LET t2 == TypeOf(first2, fq2, g2.line)
        base == [err |-> "", s2 |-> g2.s, first2 |-> first2, fq2 |-> fq2,
                 h2 |-> << >>, seq |-> << >>]
    IN  IF ~g2.ok THEN base
        ELSE IF t2 = "bad" THEN [base EXCEPT !.err = MsgDetect2, !.h2 = g2.line]
        ELSE IF NamesDiffer(name, ReadName(g2.line))
          THEN [base EXCEPT !.err = MsgNames, !.h2 = g2.line, !.first2 = FALSE,
                            !.fq2 = (t2 = "fastq")]
        ELSE With(ReadRecord(f2, g2.s, g2.line, t2 = "fastq"), LAMBDA r2 :
               [base EXCEPT !.s2 = r2.s, !.h2 = g2.line, !.first2 = FALSE,
                            !.fq2 = (t2 = "fastq"), !.seq = r2.seq]))

\* lines 405-458: read the mate of the read called name from file2. err is ""
\* or the fatal error; h2 is the header line read, seq the mate's sequence.
ReadMate(f2, s2, first2, fq2, name) ==
  With(NextLine2(f2, s2, << >>), LAMBDA g2 :
    LET t2 == TypeOf(first2, fq2, g2.line)
        base == [err |-> "", s2 |-> g2.s, first2 |-> first2, fq2 |-> fq2,
                 h2 |-> << >>, seq |-> << >>]
    IN  IF ~g2.ok THEN [base EXCEPT !.err = MsgFile1More]
        ELSE IF t2 = "bad" THEN [base EXCEPT !.err = MsgDetect2, !.h2 = g2.line]
        ELSE IF NamesDiffer(name, ReadName(g2.line))
          THEN [base EXCEPT !.err = MsgNames, !.h2 = g2.line, !.first2 = FALSE,
                            !.fq2 = (t2 = "fastq")]
        ELSE With(ReadRecord(f2, g2.s, g2.line, t2 = "fastq"), LAMBDA r2 :
               [base EXCEPT !.s2 = r2.s, !.h2 = g2.line, !.first2 = FALSE,
                            !.fq2 = (t2 = "fastq"), !.seq = r2.seq]))

\* ParseOutcome with the end of file2 ending the loop around file1 without
\* an error
ParseOutcome_EndsLoop(f1, f2, s1, s2, first1, first2, fq1, fq2, p) ==
  LET base == [kind |-> "eof", err |-> "", item |-> NoItem, s1 |-> s1, s2 |-> s2,
               first1 |-> first1, first2 |-> first2, fq1 |-> fq1, fq2 |-> fq2,
               h1 |-> << >>, h2 |-> << >>]
  IN  With(NextLine1(f1, s1, << >>), LAMBDA g1 :
        IF ~g1.ok THEN [base EXCEPT !.s1 = g1.s]
        ELSE IF TypeOf(first1, fq1, g1.line) = "bad"
          THEN [base EXCEPT !.kind = "fatal", !.s1 = g1.s, !.h1 = g1.line,
                            !.err = MsgDetect1]
        ELSE
          LET fq == TypeOf(first1, fq1, g1.line) = "fastq"
          IN  With(ReadRecord(f1, g1.s, g1.line, fq), LAMBDA r1 :
                LET b1 == [base EXCEPT !.s1 = r1.s, !.first1 = FALSE,
                                       !.fq1 = fq, !.h1 = g1.line]
                IN  IF ~p
                      THEN [b1 EXCEPT !.kind = "item",
                                      !.item = [name |-> r1.name, seq1 |-> r1.seq,
                                                seq2 |-> << >>, paired |-> FALSE]]
                    ELSE With(ReadMate(f2, s2, first2, fq2, r1.name), LAMBDA m :
                      LET b2 == [b1 EXCEPT !.s2 = m.s2, !.first2 = m.first2,
                                           !.fq2 = m.fq2, !.h2 = m.h2]
                      IN  IF m.err = MsgFile1More THEN b2
                          ELSE IF m.err /= ""
                            THEN [b2 EXCEPT !.kind = "fatal", !.err = m.err]
                          ELSE [b2 EXCEPT !.kind = "item",
                                          !.item = [name |-> r1.name,
                                                    seq1 |-> r1.seq,
                                                    seq2 |-> m.seq,
                                                    paired |-> TRUE]])))

\* What one iteration of the loop around file1 (lines 359-465) does up to its
\* push: kind is "eof" (the loop ends), "fatal" (exit) or "item" (a ReadItem
\* is built); h1 and h2 are the header lines read, s1 and s2 the streams.
ParseOutcome(f1, f2, s1, s2, first1, first2, fq1, fq2, p) ==
  LET base == [kind |-> "eof", err |-> "", item |-> NoItem, s1 |-> s1, s2 |-> s2,
               first1 |-> first1, first2 |-> first2, fq1 |-> fq1, fq2 |-> fq2,
               h1 |-> << >>, h2 |-> << >>]
  IN  With(NextLine1(f1, s1, << >>), LAMBDA g1 :
        IF ~g1.ok THEN [base EXCEPT !.s1 = g1.s]
        ELSE IF TypeOf(first1, fq1, g1.line) = "bad"
          THEN [base EXCEPT !.kind = "fatal", !.s1 = g1.s, !.h1 = g1.line,
                            !.err = MsgDetect1]
        ELSE
          LET fq == TypeOf(first1, fq1, g1.line) = "fastq"
          IN  With(ReadRecord(f1, g1.s, g1.line, fq), LAMBDA r1 :
                LET b1 == [base EXCEPT !.s1 = r1.s, !.first1 = FALSE,
                                       !.fq1 = fq, !.h1 = g1.line]
                IN  IF ~p
                      THEN [b1 EXCEPT !.kind = "item",
                                      !.item = [name |-> r1.name, seq1 |-> r1.seq,
                                                seq2 |-> << >>, paired |-> FALSE]]
                    ELSE With(ReadMate(f2, s2, first2, fq2, r1.name), LAMBDA m :
                      LET b2 == [b1 EXCEPT !.s2 = m.s2, !.first2 = m.first2,
                                           !.fq2 = m.fq2, !.h2 = m.h2]
                      IN  IF m.err /= ""
                            THEN [b2 EXCEPT !.kind = "fatal", !.err = m.err]
                          ELSE [b2 EXCEPT !.kind = "item",
                                          !.item = [name |-> r1.name,
                                                    seq1 |-> r1.seq,
                                                    seq2 |-> m.seq,
                                                    paired |-> TRUE]])))

\* the outcome of the next iteration in the current state
Outcome ==
  ParseOutcome(file1, file2, in1, in2, firstline_file1, firstline_file2,
               isFastQ_file1, isFastQ_file2, paired)

\* lines 359-458: read the next record (pair); the ReadItem waits for its push
ParseRecord ==
  /\ Running /\ pc = "parse"
  /\ \E o \in {Outcome} :
         /\ in1' = o.s1 /\ in2' = o.s2
         /\ firstline_file1' = o.first1 /\ firstline_file2' = o.first2
         /\ isFastQ_file1' = o.fq1 /\ isFastQ_file2' = o.fq2
         /\ item' = o.item
         /\ parsed' = IF o.kind = "item"
                        THEN Append(parsed, [h1 |-> o.h1, h2 |-> o.h2, item |-> o.item])
                        ELSE parsed
         /\ lastHdr' = << o.h1, o.h2 >>
         /\ IF o.kind = "fatal" THEN Fatal(o.err)
            ELSE /\ pc' = IF o.kind = "item" THEN "push" ELSE "pushedLast"
                 /\ UNCHANGED << exit_status, err, queue >>
  /\ UNCHANGED << worker_failed, cmdline, i_files, file1, file2, threads, cthread, outputs,
                  warned, pushed, consumed, nclosed, file2Rest >>

\* Push with pushedLast() called inside the loop, after every push
Push_ClosesQueue ==
  /\ Running /\ pc = "push"
  /\ Len(queue.items) < QueueCap
  /\ queue' = [queue EXCEPT !.items = Append(@, item), !.closed = TRUE]
  /\ pushed' = Append(pushed, item)
  /\ item' = NoItem
  /\ pc' = "parse"
  /\ UNCHANGED << worker_failed, cmdline, i_files, parser, threads, cthread, outputs,
                  exit_status, err, warned, parsed, consumed, nclosed, lastHdr, file2Rest >>

\* a push that does not wait for room in the queue
Push_NoWait ==
  /\ Running /\ pc = "push"
  /\ queue' = [queue EXCEPT !.items = Append(@, item)]
  /\ pushed' = Append(pushed, item)
  /\ item' = NoItem
  /\ pc' = "parse"
  /\ UNCHANGED << worker_failed, cmdline, i_files, parser, threads, cthread, outputs,
                  exit_status, err, warned, parsed, consumed, nclosed, lastHdr, file2Rest >>

\* lines 459/462: myWorkQueue->push(new ReadItem(...)), which waits while the
\* queue is full
Push ==
  /\ Running /\ pc = "push"
  /\ Len(queue.items) < QueueCap
  /\ queue' = [queue EXCEPT !.items = Append(@, item)]
  /\ pushed' = Append(pushed, item)
  /\ item' = NoItem
  /\ pc' = "parse"
  /\ UNCHANGED << worker_failed, cmdline, i_files, parser, threads, cthread, outputs,
                  exit_status, err, warned, parsed, consumed, nclosed, lastHdr, file2Rest >>

\* line 467 left out: the queue is never closed
PushedLast_NoClose ==
  /\ Running /\ pc = "pushedLast"
  /\ pc' = "tail"
  /\ UNCHANGED << worker_failed, cmdline, i_files, parser, item, queue, threads, cthread,
                  outputs, exit_status, err, warned, history >>

\* pushedLast() called inside the loop around file1
PushedLast_InLoop ==
  /\ Running /\ pc = "pushedLast"
  /\ queue' = [queue EXCEPT !.closed = TRUE]
  /\ nclosed' = nclosed + 1
  /\ pc' = "parse"
  /\ UNCHANGED << worker_failed, cmdline, i_files, parser, item, threads, cthread, outputs,
                  exit_status, err, warned, pushed, parsed, consumed, lastHdr, file2Rest >>

\* line 467: myWorkQueue->pushedLast()
PushedLast ==
  /\ Running /\ pc = "pushedLast"
  /\ queue' = [queue EXCEPT !.closed = TRUE]
  /\ nclosed' = nclosed + 1
  /\ pc' = "tail"
  /\ UNCHANGED << worker_failed, cmdline, i_files, parser, item, threads, cthread, outputs,
                  exit_status, err, warned, pushed, parsed, consumed, lastHdr, file2Rest >>

\* lines 471-474: does the warning about extra reads in file2 get printed
Warns(f2, s2, p) ==
  LET g == getline(f2, s2, << >>)
  IN  p /\ good(s2) /\ g.ok /\ Len(g.line) > 0

\* f holds a non-empty line that stream s has not read
HasMoreReads(f, s) == \E k \in s.pos..Len(f.lines) : f.lines[k] /= << >>

\* the first such line, << >> for none
FirstUnread(f, s) ==
  IF HasMoreReads(f, s)
    THEN f.lines[CHOOSE k \in s.pos..Len(f.lines) :
                   /\ f.lines[k] /= << >>
                   /\ \A j \in s.pos..(k - 1) : f.lines[j] = << >>]
    ELSE << >>

\* lines 469-476: delete in1_file, warn if file2 has more reads
CheckFile2 ==
  /\ Running /\ pc = "tail"
  /\ warned' = Warns(file2, in2, paired)
  /\ file2Rest' = IF paired THEN FirstUnread(file2, in2) ELSE << >>
  /\ in2' = IF paired /\ good(in2) THEN getline(file2, in2, << >>).s ELSE in2
  /\ pc' = "join"
  /\ UNCHANGED << worker_failed, cmdline, i_files, file1, file2, in1, firstline_file1,
                  firstline_file2, isFastQ_file1, isFastQ_file2, item, queue,
                  threads, cthread, outputs, exit_status, err, pushed, parsed,
                  consumed, nclosed, lastHdr >>

\* the join loop stopping one thread early
JoinPending_OffByOne(ts) == Len(ts) > 1

\* line 478: the join loop goes on while threads remain
JoinPending(ts) == ts /= << >>

\* lines 478-483: threads.front().join() returns once that thread has ended
JoinThread ==
  /\ Running /\ pc = "join"
  /\ JoinPending(threads)
  /\ cthread[Head(threads)].st = "exited"
  /\ threads' = Tail(threads)
  /\ cthread' = [cthread EXCEPT ![Head(threads)] = NoThread]
  /\ UNCHANGED << worker_failed, cmdline, pc, i_files, parser, item, queue, outputs,
                  exit_status, err, warned, history >>

\* lines 485-493: flush, close and delete the output file, delete the queue,
\* advance to the next file pair or return EXIT_SUCCESS
FlushAndClose ==
  /\ Running /\ pc = "join"
  /\ ~JoinPending(threads)
  /\ flushed' = [flushed EXCEPT ![out_stream] = TRUE]
  /\ ofile' = IF useOut THEN [ofile EXCEPT ![out_stream] = "closed"] ELSE ofile
  /\ queue' = NoQueue
  /\ i_files' = i_files + 1
  /\ IF i_files + 1 < nFiles
       THEN pc' = "start" /\ exit_status' = exit_status
       ELSE pc' = "done" /\ exit_status' = 0
  /\ UNCHANGED << worker_failed, cmdline, parser, item, threads, cthread, out_stream, written,
                  err, warned, history >>

\* --------------------------------------------------------- consumer threads
\* ProducerConsumerQueue::pop: an item while there is one
Pop(w) ==
  /\ Running /\ cthread[w].st = "running"
  /\ queue.alive /\ queue.items /= << >>
  /\ cthread' = [cthread EXCEPT ![w] = [st |-> "working", item |-> Head(queue.items)]]
  /\ queue' = [queue EXCEPT !.items = Tail(@)]
  /\ UNCHANGED << worker_failed, cmdline, pc, i_files, parser, item, threads, outputs,
                  exit_status, err, warned, history >>

\* ConsumerThread::doWork: classify the read and write its line
Classify(w) ==
  /\ Running /\ cthread[w].st = "working"
  /\ written' = [written EXCEPT ![out_stream] = @ \cup {i_files}]
  /\ flushed' = [flushed EXCEPT ![out_stream] = FALSE]
  /\ consumed' = consumed (+) SetToBag({cthread[w].item})
  /\ cthread' = [cthread EXCEPT ![w] = [st |-> "running", item |-> NoItem]]
  /\ UNCHANGED << worker_failed, cmdline, pc, i_files, parser, item, queue, threads,
                  out_stream, ofile, exit_status, err, warned, pushed, parsed,
                  nclosed, lastHdr, file2Rest >>

\* ProducerConsumerQueue::pop returns false (closed and drained): doWork ends
PopClosed(w) ==
  /\ Running /\ cthread[w].st = "running"
  /\ queue.alive /\ queue.items = << >> /\ queue.closed
  /\ cthread' = [cthread EXCEPT ![w] = [st |-> "exited", item |-> NoItem]]
  /\ UNCHANGED << worker_failed, cmdline, pc, i_files, parser, item, queue, threads, outputs,
                  exit_status, err, warned, history >>

Worker(w) == Pop(w) \/ Classify(w) \/ PopClosed(w)

\* ConsumerThread::doWork on a fatal index error: the error is logged, the
\* shared flag is set, the read gets no output line and the worker goes on
ClassifyFails(w) ==
  /\ Running /\ cthread[w].st = "working"
  /\ worker_failed' = TRUE
  /\ consumed' = consumed (+) SetToBag({cthread[w].item})
  /\ cthread' = [cthread EXCEPT ![w] = [st |-> "running", item |-> NoItem]]
  /\ UNCHANGED << cmdline, pc, i_files, parser, item, queue, threads,
                  outputs, exit_status, err, warned, pushed, parsed,
                  nclosed, lastHdr, file2Rest >>

\* ----------------------------------------------------------- specifications
\* a step of the main thread, reading its input files from S
Main(S) ==
  \/ OpenOutput
  \/ NewQueue
  \/ StartThread
  \/ OpenInputs(S)
  \/ ParseRecord
  \/ Push
  \/ PushedLast
  \/ CheckFile2
  \/ JoinThread
  \/ FlushAndClose

Next ==
  \/ OpenOutput
  \/ NewQueue
  \/ StartThread
  \/ OpenInputs(PipeInputs(paired))
  \/ ParseRecord
  \/ Push
  \/ PushedLast
  \/ CheckFile2
  \/ JoinThread
  \/ FlushAndClose
  \/ \E w \in 1..MaxThreads : Pop(w)
  \/ \E w \in 1..MaxThreads : Classify(w)
  \/ \E w \in 1..MaxThreads : PopClosed(w)

Spec == Init /\ [][Next]_vars

\* one file pair; the operating system schedules every thread that can run
InitFair == Init /\ nFiles = 1

FairSpec ==
  /\ InitFair /\ [][Next]_vars
  /\ WF_vars(Main(PipeInputs(paired)))
  /\ \A w \in 1..MaxThreads : WF_vars(Worker(w))

\* the parser on a wide set of files: one consumer thread, one file pair,
\* output to std::cout
InitParse == Init /\ num_threads = 1 /\ nFiles = 1 /\ ~useOut

NextParse ==
  \/ OpenOutput
  \/ NewQueue
  \/ StartThread
  \/ OpenInputs(ParseInputs(paired))
  \/ ParseRecord
  \/ Push
  \/ PushedLast
  \/ CheckFile2
  \/ JoinThread
  \/ FlushAndClose
  \/ \E w \in 1..MaxThreads : Pop(w)
  \/ \E w \in 1..MaxThreads : Classify(w)
  \/ \E w \in 1..MaxThreads : PopClosed(w)

SpecParse == InitParse /\ [][NextParse]_vars

\* the pipeline with workers that can report fatal errors
NextFail ==
  \/ OpenOutput
  \/ NewQueue
  \/ StartThread
  \/ OpenInputs(PipeInputs(paired))
  \/ ParseRecord
  \/ Push
  \/ PushedLast
  \/ CheckFile2
  \/ JoinThread
  \/ FlushAndClose
  \/ \E w \in 1..MaxThreads : Pop(w)
  \/ \E w \in 1..MaxThreads : Classify(w)
  \/ \E w \in 1..MaxThreads : ClassifyFails(w)
  \/ \E w \in 1..MaxThreads : PopClosed(w)

SpecFail == Init /\ [][NextFail]_vars

\* the whole run from the command line on, with one small file per input
ConfigInputs(p) ==
  LET f == [lines |-> F_a, nl |-> TRUE]
  IN  IF p THEN {<< f, f >>} ELSE {<< f, NoFile >>}

\* the state when main starts to read the command line (line 73)
InitConfig ==
  /\ paired = FALSE
  /\ useOut = FALSE
  /\ num_threads = 1
  /\ verbose = FALSE /\ debug = FALSE
  /\ nFiles = 0
  /\ config = DefaultConfig
  /\ nodes_filename = << >> /\ fmi_filename = << >>
  /\ in1_filename = << >> /\ in2_filename = << >> /\ output_filename = << >>
  /\ given = {}
  /\ nopts = 0
  /\ pc = "getopt"
  /\ InitLoop

NextConfig ==
  \/ \E o \in Options : GetOpt(o)
  \/ EndOpts
  \/ CheckLists
  \/ CheckReadable
  \/ LoadDatabase
  \/ OpenOutput
  \/ NewQueue
  \/ StartThread
  \/ OpenInputs(ConfigInputs(paired))
  \/ ParseRecord
  \/ Push
  \/ PushedLast
  \/ CheckFile2
  \/ JoinThread
  \/ FlushAndClose
  \/ \E w \in 1..MaxThreads : Pop(w)
  \/ \E w \in 1..MaxThreads : Classify(w)
  \/ \E w \in 1..MaxThreads : PopClosed(w)

SpecConfig == InitConfig /\ [][NextConfig]_vars


\* ------------------------------------------------------------------- claims
\* the bag of the elements of a sequence
SeqBag(sq) ==
  [it \in {sq[k] : k \in 1..Len(sq)} |-> Cardinality({k \in 1..Len(sq) : sq[k] = it})]

\* the bag of the ReadItems popped and not yet classified
WorkBag ==
  LET ws == {w \in 1..MaxThreads : cthread[w].st = "working"}
  IN  [it \in {cthread[w].item : w \in ws} |->
         Cardinality({w \in ws : cthread[w].item = it})]

\* the ReadItems the parser built from the records of the current pair
ParsedItems == [k \in 1..Len(parsed) |-> parsed[k].item]

\* every thread of the pair was started and has left doWork
AllExited ==
  /\ Len(threads) = num_threads
  /\ \A k \in 1..Len(threads) : cthread[threads[k]].st = "exited"

\* the ConsumerThreads that exist
NThreads == Cardinality({w \in 1..MaxThreads : cthread[w].st /= "none"})

\* C1: every ReadItem pushed is held by exactly one of the queue, a worker or
\* the set of classified reads (none lost, none duplicated); a worker leaves
\* doWork only when pushedLast was called and the queue is empty; when all
\* workers have left, the reads classified are exactly the reads parsed.
C1_NoneLostNoneDuplicated ==
  /\ queue.alive =>
       SeqBag(pushed) = consumed (+) WorkBag (+) SeqBag(queue.items)
  /\ \A w \in 1..MaxThreads :
       cthread[w].st = "exited" =>
         queue.closed /\ nclosed >= 1 /\ queue.items = << >>
  /\ AllExited => consumed = SeqBag(ParsedItems)

C1_Witness ==
  /\ AllExited /\ num_threads = 2 /\ Len(pushed) > QueueCap
  /\ pushed[1] = pushed[2]
  /\ consumed = SeqBag(pushed)

\* the pair that was being processed is complete: pushedLast was called, every
\* worker has ended and was joined, the output is flushed, the queue deleted
PairDone ==
  /\ pc \in {"start", "done"}
  /\ nclosed = 1
  /\ threads = << >> /\ NThreads = 0
  /\ flushed[out_stream]
  /\ ~queue.alive

\* C2: under weak fairness of the producer and of every worker, a pair whose
\* workers were started either ends in a fatal error or is completed:
\* pushedLast is called, the workers exit and are joined, the stream is flushed.
C2_PipelineCompletes == (pc = "openin") ~> (err /= "" \/ PairDone)

C2_Witness ==
  /\ pc = "done" /\ num_threads = 2
  /\ Len(pushed) > QueueCap
  /\ PairDone

\* C3: when the output stream, the queue or the workers of a pair are created
\* no queue and no worker of the pair before exists; the queue is new and
\* empty; while the pair is parsed exactly num_threads workers exist.
C3_PairsDoNotOverlap ==
  /\ pc \in {"start", "queue", "done"} =>
       ~queue.alive /\ threads = << >> /\ NThreads = 0
  /\ pc = "threads" =>
       /\ queue.alive /\ queue.items = << >> /\ ~queue.closed /\ pushed = << >>
       /\ NThreads = Len(threads) /\ Len(threads) <= num_threads
  /\ pc \in {"openin", "parse", "push", "pushedLast", "tail"} =>
       queue.alive /\ NThreads = num_threads /\ Len(threads) = num_threads

C3_Witness ==
  /\ pc = "threads" /\ i_files = 1 /\ Len(threads) = 2 /\ num_threads = 2

\* C4: while a ConsumerThread exists, config->out_stream is the stream of the
\* current file pair and (with -o) that file is open; every line a pair wrote
\* went to the stream of that pair.
C4_OutputOfCurrentPair ==
  /\ NThreads > 0 =>
       /\ out_stream = StreamOf(i_files)
       /\ useOut => ofile[out_stream] = "open"
  /\ \A k \in 0..MaxPairs : \A i \in written[k] : k = StreamOf(i)

C4_Witness ==
  /\ useOut /\ i_files = 1 /\ out_stream = 2
  /\ \E w \in 1..MaxThreads : cthread[w].st = "working"
  /\ written[1] = {0} /\ ofile[1] = "closed"

\* C5 as claimed: when a fatal error of the parser ends the process, the
\* producer has closed the queue and the workers have drained it: every
\* ReadItem pushed before the error has been classified.
C5_AsClaimed ==
  (pc = "exit" /\ err \in ParseErrors) =>
    (queue.closed /\ consumed = SeqBag(pushed))

\* the read name of a header line as the specification defines it: the line
\* without its first character, up to the first of space, '/', tab, CR
TruncatedName(h) ==
  LET t == [k \in 1..(Len(h) - 1) |-> h[k + 1]]
      cut == {k \in 1..Len(t) : t[k] \in {" ", "/", "\t", "\r"}}
      n == IF cut = {} THEN Len(t)
           ELSE (CHOOSE k \in cut : \A j \in cut : k <= j) - 1
  IN  [k \in 1..n |-> t[k]]

\* the last iteration read a header from both files and their names differ
NamesOutOfSync ==
  /\ paired /\ lastHdr[1] /= << >> /\ lastHdr[2] /= << >>
  /\ TruncatedName(lastHdr[1]) /= TruncatedName(lastHdr[2])

\* C6: in paired mode every ReadItem built has equal truncated names in file1
\* and file2, and a record pair whose truncated names differ ends the run with
\* a non-zero exit without a ReadItem for it.
C6_NamesInSync ==
  /\ paired =>
       \A k \in 1..Len(parsed) :
         TruncatedName(parsed[k].h1) = TruncatedName(parsed[k].h2)
  /\ NamesOutOfSync =>
       /\ pc = "exit" /\ exit_status = 1
       /\ item = NoItem /\ Len(parsed) = Len(pushed)

C6_Witness ==
  /\ NamesOutOfSync /\ err = MsgNames
  /\ isFastQ_file1 /\ ~isFastQ_file2
  /\ Len(pushed) = 1
  /\ parsed[1].h1 /= parsed[1].h2

\* file2 held unread reads when file1 was exhausted
file2More == file2Rest /= << >>

\* C7 as claimed: whenever file2 holds a further read (here: a FASTQ record,
\* after at least one read pair was pushed) when file1 is exhausted, the
\* warning is printed and no fatal error is raised.
C7_AsClaimed ==
  (file2More /\ file2Rest[1] = "@" /\ pushed /= << >>) =>
    (warned /\ err \notin ParseErrors)

\* C8: in paired mode, an iteration that finds a read in file1 while file2
\* holds no further read ends the run with a fatal error and a non-zero exit,
\* and no ReadItem is built or pushed for that read.
C8_File1MoreIsFatal ==
  [][ (/\ pc = "parse" /\ pc' /= "parse" /\ paired
       /\ HasMoreReads(file1, in1)
       /\ ~HasMoreReads(file2, in2))
      => (/\ pc' = "exit" /\ exit_status' = 1
          /\ err' \in {MsgFile1More, MsgDetect1}
          /\ pushed' = pushed /\ parsed' = parsed /\ item' = NoItem) ]_vars

C8_Witness ==
  /\ pc = "exit" /\ err = MsgFile1More /\ exit_status = 1
  /\ Len(pushed) = 1
  /\ HasMoreReads(file1, [pos |-> 1]) /\ lastHdr[1] /= << >>

\* the loop around file1 has ended (file1 is exhausted) and file2 held a read
\* that was not read
File1ExhaustedFirst ==
  /\ paired
  /\ \/ pc \in {"pushedLast", "tail"} /\ HasMoreReads(file2, in2)
     \/ file2More

\* the next line of file1 is its first one and does not select a format
BadFirstLine1 == firstline_file1 /\ FileType(FirstUnread(file1, in1)) = "bad"

\* C9 as claimed: a run in which file1 was exhausted while file2 still held
\* reads does not end successfully.
C9_AsClaimed == (paired /\ file2More /\ pc = "done") => exit_status /= 0

\* C9 amended: in paired mode an iteration that finds a read in file1 while
\* file2 is exhausted ends the run at once with the fatal error of line 409
\* and a non-zero exit; an iteration that finds file1 exhausted while file2
\* holds a read ends the loop without an error, and from then on the run has
\* no error, does not exit, and can only end with exit status 0. The fatal
\* error is raised in no other case, and no ReadItem is ever built without a
\* header read from file2.
C9_File2ExhaustedFirstIsFatal ==
  /\ [][ (/\ pc = "parse" /\ pc' /= "parse" /\ paired
          /\ HasMoreReads(file1, in1) /\ ~BadFirstLine1
          /\ ~HasMoreReads(file2, in2))
         => (/\ pc' = "exit" /\ exit_status' = 1
             /\ err' = MsgFile1More
             /\ item' = NoItem /\ parsed' = parsed) ]_vars
  /\ [][ (/\ pc = "parse" /\ pc' /= "parse" /\ paired
          /\ ~HasMoreReads(file1, in1)
          /\ HasMoreReads(file2, in2))
         => (/\ pc' = "pushedLast" /\ err' = "" /\ exit_status' = exit_status
             /\ File1ExhaustedFirst') ]_vars
  /\ [](File1ExhaustedFirst =>
         /\ pc \in {"pushedLast", "tail", "join", "done"}
         /\ err = ""
         /\ exit_status = IF pc = "done" THEN 0 ELSE -1)
  /\ [](err = MsgFile1More =>
         /\ pc = "exit" /\ exit_status = 1 /\ paired
         /\ lastHdr[1] /= << >> /\ lastHdr[2] = << >>
         /\ ~HasMoreReads(file2, in2))
  /\ [](paired => \A k \in 1..Len(parsed) : parsed[k].h2 /= << >>)

C9_Witness ==
  /\ paired /\ file2More /\ pc = "done" /\ exit_status = 0
  /\ Len(pushed) >= 1

\* a FASTQ file without empty lines whose last record is cut short
TruncatedFastQ(f) ==
  /\ Len(f.lines) > 0
  /\ \A k \in 1..Len(f.lines) : f.lines[k] /= << >>
  /\ f.lines[1][1] = "@"
  /\ Len(f.lines) % 4 /= 0

\* C10 as claimed: a FASTQ file whose last record is truncated never ends the
\* run successfully, and no ReadItem is built for the truncated record.
C10_AsClaimed ==
  (~paired /\ TruncatedFastQ(file1)) =>
    /\ pc /= "done"
    /\ Len(parsed) <= Len(file1.lines) \div 4

\* the format of a file as the specification defines it, from the first
\* character of its first non-empty line ("none": the file has no such line)
FormatOf(f) ==
  LET ks == {k \in 1..Len(f.lines) : f.lines[k] /= << >>}
      c == f.lines[CHOOSE k \in ks : \A j \in ks : k <= j][1]
  IN  IF ks = {} THEN "none"
      ELSE CASE c = "@" -> "fastq" [] c = ">" -> "fasta" [] OTHER -> "bad"

\* the run has passed the loop around file1 or holds a ReadItem to push
PastFirstRecord == pc \in {"push", "pushedLast", "tail", "join", "done"}

\* C11 as claimed: file2 is examined independently of file1: a file2 whose
\* first non-empty line starts with a character other than '@' and '>' never
\* lets the run end successfully.
C11_AsClaimed ==
  (paired /\ FormatOf(file2) = "bad") => (pc = "done" => exit_status /= 0)

\* C11 amended: the format of file1 and of file2 is the one the first
\* character of the file's first non-empty line selects ('@' FASTQ, '>' FASTA)
\* and is the same for every later record; no ReadItem exists before the
\* format of the files it is read from is decided. A first line of file1 with
\* another character ends the run with a non-zero exit and nothing pushed. The
\* first line of file2 is examined when the mate of the first read of file1 is
\* read: with a file1 that holds a read, another character in file2 ends the
\* run with a non-zero exit and nothing pushed; with a file1 without reads,
\* file2 is never examined, no error is raised and the run ends with exit
\* status 0.
C11_FormatDecidedOnce ==
  /\ ~firstline_file1 =>
       /\ FormatOf(file1) \in {"fastq", "fasta"}
       /\ isFastQ_file1 = (FormatOf(file1) = "fastq")
  /\ ~firstline_file2 =>
       /\ paired /\ FormatOf(file2) \in {"fastq", "fasta"}
       /\ isFastQ_file2 = (FormatOf(file2) = "fastq")
  /\ (firstline_file1 \/ (paired /\ firstline_file2)) =>
       pushed = << >> /\ item = NoItem
  /\ FormatOf(file1) = "bad" =>
       /\ pc \in {"parse", "exit"}
       /\ pc = "exit" => exit_status = 1 /\ err = MsgDetect1
  /\ (paired /\ FormatOf(file2) = "bad") =>
       /\ pushed = << >> /\ item = NoItem
       /\ FormatOf(file1) \in {"fastq", "fasta"} =>
            /\ pc \in {"parse", "exit"}
            /\ pc = "exit" => exit_status = 1 /\ err = MsgDetect2
       /\ FormatOf(file1) = "none" =>
            /\ pc \in {"parse", "pushedLast", "tail", "join", "done"}
            /\ firstline_file2 /\ err = ""
            /\ exit_status = IF pc = "done" THEN 0 ELSE -1

C11_Witness ==
  /\ pc = "done" /\ paired /\ Len(pushed) = 1
  /\ isFastQ_file1 /\ ~isFastQ_file2
  /\ FormatOf(file1) = "fastq" /\ FormatOf(file2) = "fasta"
  /\ file1.lines[1] = << >>

\* option c was given; its argument
Has(c) == \E g \in given : g.c = c
ArgOf(c) == (CHOOSE g \in given : g.c = c).arg

\* the number of file names in a comma-separated list: the maximal runs of
\* characters other than ','
NameCount(s) ==
  Cardinality({k \in 1..Len(s) : s[k] /= "," /\ (k = 1 \/ s[k - 1] = ",")})

\* the violations of the command line rules
MissingMandatory == ~Has("t") \/ ~Has("f") \/ ~Has("i")
ProteinPaired == Has("p") /\ Has("j")
EvalueOptionMem ==
  /\ Has("a") /\ ArgOf("a") = <<"m", "e", "m">>
  /\ Has("E")
EvalueMem == EvalueOptionMem /\ Stod(ArgOf("E")).ok = "ok"
ListsUnequal ==
  /\ Has("i") /\ Has("o")
  /\ \/ NameCount(ArgOf("i")) /= NameCount(ArgOf("o"))
     \/ Has("j") /\ NameCount(ArgOf("j")) /= NameCount(ArgOf("i"))

\* a command line with one of the violations, -E with -a mem being the
\* predicate evalueMem, never gets past the checks: the run ends with a
\* non-zero exit, no queue, no thread, nothing parsed or pushed
ViolationsAreFatal(evalueMem) ==
  (pc /= "getopt" /\ (MissingMandatory \/ ProteinPaired \/ evalueMem \/ ListsUnequal))
    => /\ pc \in {"lists", "exit"}
       /\ (MissingMandatory \/ ProteinPaired \/ evalueMem) => pc = "exit"
       /\ pc = "exit" => exit_status = 1
       /\ ~queue.alive /\ NThreads = 0
       /\ in1 = NewStream /\ parsed = << >> /\ pushed = << >> /\ item = NoItem

\* C12 as claimed: once the options are read, a command line without -t, -f
\* or -i, with -p and -j, with -E (whatever its argument) and -a mem, or with
\* -o and lists of unequal length never gets past the checks, whatever the
\* order of the options.
C12_AsClaimed == ViolationsAreFatal(EvalueOptionMem)

\* C12 amended: the same, with -E counting only when std::stod accepts its
\* argument; a -E whose argument is rejected is ignored, and the error of the
\* E-value mode is raised only when an E-value was accepted and the mode is
\* mem.
C12_ViolationsAreFatal ==
  /\ ViolationsAreFatal(EvalueMem)
  /\ err = MsgEvalueMode => (config.use_Evalue /\ config.mode = "mem")

C12_Witness ==
  /\ pc = "exit" /\ err = MsgEvalueMode /\ exit_status = 1
  /\ EvalueMem /\ ~MissingMandatory /\ ~ProteinPaired /\ ~ListsUnequal
  /\ nopts = MaxOpts

\* C13 as claimed: while a worker exists the configuration is within its
\* bounds: seed_length >= 7, min_fragment_length >= 1, min_score > 0,
\* mismatches >= 0, num_threads >= 1, and use_Evalue implies Greedy mode and
\* min_Evalue > 0.
C13_AsClaimed ==
  NThreads > 0 =>
    /\ config.seed_length >= 7
    /\ config.min_fragment_length >= 1
    /\ config.min_score > 0
    /\ config.mismatches >= 0
    /\ num_threads >= 1
    /\ config.use_Evalue => (config.mode = "greedy" /\ GtZero(config.min_Evalue))

\* the fatal configuration errors
ConfigErrors ==
  {MsgNodes, MsgFmi, MsgInput, MsgProtein, MsgEvalueMode, MsgLists,
   MsgOpenIn, MsgOpenOut}

\* C20 as claimed: when a fatal configuration error ends the process no
\* worker thread exists.
C20_AsClaimed == (pc = "exit" /\ err \in ConfigErrors) => NThreads = 0

\* C14 as claimed: a run in which a worker reported a fatal error does not
\* end with exit status 0.
C14_AsClaimed == (worker_failed /\ pc = "done") => exit_status /= 0

\* C15: every ReadItem pushed is the ReadItem built from a record, and its
\* name holds no space, '/', tab or CR and is the header line of file1 (and in
\* paired mode also of file2) without its first character, cut at the first
\* of those characters.
C15_NamesTruncated ==
  /\ Len(pushed) <= Len(parsed)
  /\ \A k \in 1..Len(pushed) : pushed[k] = parsed[k].item
  /\ \A k \in 1..Len(parsed) :
       /\ \A j \in 1..Len(parsed[k].item.name) :
            parsed[k].item.name[j] \notin {" ", "/", "\t", "\r"}
       /\ parsed[k].item.name = TruncatedName(parsed[k].h1)
       /\ paired => parsed[k].item.name = TruncatedName(parsed[k].h2)

C15_Witness ==
  /\ pc = "done" /\ ~paired /\ Len(pushed) = 2
  /\ parsed[1].h1 = <<"@", "r", "\r">> /\ pushed[1].name = <<"r">>
  /\ parsed[2].h1 = <<"@", "a", "/", "1">> /\ pushed[2].name = <<"a">>

\* the state of a pair with respect to pushedLast
ClosedOnce ==
  /\ nclosed <= 1
  /\ queue.alive => (queue.closed <=> nclosed = 1)
  /\ pc \in {"threads", "openin", "parse", "push", "pushedLast"} => nclosed = 0
  /\ pc \in {"tail", "join"} => nclosed = 1
  /\ (pc \in {"start", "done"} /\ i_files > 0) => nclosed = 1
  /\ nclosed = 1 =>
       /\ item = NoItem /\ pushed = ParsedItems
       /\ ~HasMoreReads(file1, in1)

\* C16: pushedLast is called exactly once on the queue of every pair parsed
\* to the end of file1 (also of a file1 without reads), after every record of
\* file1 was pushed, and nothing is pushed to a queue once it was called.
C16_ClosedOnceAfterLastPush ==
  /\ []ClosedOnce
  /\ [][(nclosed = 1 /\ nclosed' = 1) => pushed' = pushed]_vars

C16_Witness ==
  /\ pc = "start" /\ i_files = 1 /\ nclosed = 1
  /\ pushed = << >> /\ file1.lines = << >>

\* C17: the queue never holds more ReadItems than its capacity (QueueCap here,
\* 500 in main); while the producer is in a push and the queue is full, the
\* push does not complete and no further record is parsed: the next step is a
\* worker's, and a push completes only from a queue that has room.
C17_QueueBounded ==
  /\ [](Len(queue.items) <= QueueCap)
  /\ [][(pc = "push" /\ Len(queue.items) = QueueCap)
         => (pc' = "push" /\ pushed' = pushed /\ parsed' = parsed /\ item' = item
             /\ in1' = in1 /\ in2' = in2)]_vars
  /\ [][pushed' /= pushed
         => (pushed' = << >> \/ Len(queue.items) < QueueCap)]_vars

C17_Witness ==
  /\ pc = "push" /\ Len(queue.items) = QueueCap
  /\ Len(pushed) = QueueCap /\ item /= NoItem
  /\ \A w \in 1..num_threads : cthread[w].st = "running"

\* A well-formed file as the specification defines it: without empty lines;
\* FASTQ is groups of four lines (header '@', sequence, '+', quality), FASTA
\* starts with a header '>'.
WellFormedFastQ(f) ==
  /\ Len(f.lines) > 0 /\ Len(f.lines) % 4 = 0
  /\ \A k \in 1..Len(f.lines) : f.lines[k] /= << >>
  /\ \A k \in 1..Len(f.lines) :
       /\ k % 4 = 1 => f.lines[k][1] = "@"
       /\ k % 4 = 3 => f.lines[k][1] = "+"

WellFormedFastA(f) ==
  /\ Len(f.lines) > 0
  /\ \A k \in 1..Len(f.lines) : f.lines[k] /= << >>
  /\ f.lines[1][1] = ">"

WellFormed(f) == WellFormedFastQ(f) \/ WellFormedFastA(f)

\* the concatenation of lines a..b of f
RECURSIVE Concat(_, _, _)
Concat(f, a, b) == IF a > b THEN << >> ELSE f.lines[a] \o Concat(f, a + 1, b)

\* the records [h, seq] of a well-formed file: header line and raw sequence
RecordsOf(f) ==
  IF WellFormedFastQ(f)
    THEN [k \in 1..(Len(f.lines) \div 4) |->
            [h |-> f.lines[4 * k - 3], seq |-> f.lines[4 * k - 2]]]
    ELSE LET hs == {k \in 1..Len(f.lines) : f.lines[k][1] = ">"}
             \* the index of the j-th header
             hd(j) == CHOOSE k \in hs : Cardinality({i \in hs : i <= k}) = j
             last(j) == IF j = Cardinality(hs) THEN Len(f.lines) ELSE hd(j + 1) - 1
         IN  [j \in 1..Cardinality(hs) |->
                [h |-> f.lines[hd(j)], seq |-> Concat(f, hd(j) + 1, last(j))]]

\* a sequence without the characters that are not letters
Alpha(sq) == SelectSeq(sq, LAMBDA c : c \in Letters)

\* C18: for well-formed files, the k-th ReadItem pushed carries the name and
\* the sequence of the k-th record of file1 and, in paired mode, the sequence
\* of the k-th record of file2; when file1 is parsed to its end exactly one
\* ReadItem per record of file1 was pushed; a single well-formed file raises
\* no fatal error.
C18_RecordsInOrder ==
  (WellFormed(file1) /\ (paired => WellFormed(file2))) =>
    /\ Len(pushed) <= Len(RecordsOf(file1))
    /\ paired => Len(pushed) <= Len(RecordsOf(file2))
    /\ \A k \in 1..Len(pushed) :
         /\ pushed[k].name = TruncatedName(RecordsOf(file1)[k].h)
         /\ pushed[k].seq1 = Alpha(RecordsOf(file1)[k].seq)
         /\ pushed[k].paired = paired
         /\ pushed[k].seq2 = IF paired THEN Alpha(RecordsOf(file2)[k].seq) ELSE << >>
    /\ pc \in {"tail", "join", "done"} => Len(pushed) = Len(RecordsOf(file1))
    /\ ~paired => err \notin ParseErrors

C18_Witness ==
  /\ pc = "done" /\ paired /\ Len(pushed) = 2
  /\ WellFormedFastQ(file1) /\ WellFormedFastA(file2)
  /\ Len(file2.lines) > 4 /\ ~file2.nl
  /\ pushed[2].seq2 = <<"A", "C", "G">>

\* a file without its empty lines
Clean(f) == [lines |-> SelectSeq(f.lines, LAMBDA l : l /= << >>), nl |-> f.nl]

\* the ReadItems of the records of a well-formed single file
ItemsOf(f) ==
  [k \in 1..Len(RecordsOf(f)) |->
     [name |-> TruncatedName(RecordsOf(f)[k].h), seq1 |-> Alpha(RecordsOf(f)[k].seq),
      seq2 |-> << >>, paired |-> FALSE]]

\* file1 is a well-formed file with empty lines inserted
EmptyLinesInserted == ~paired /\ file1 /= Clean(file1) /\ WellFormed(Clean(file1))

\* C19 as claimed: a well-formed file with empty lines inserted at any
\* position raises no fatal error and gives the ReadItems of the file without
\* the empty lines.
C19_AsClaimed ==
  EmptyLinesInserted =>
    /\ err \notin ParseErrors
    /\ pc \in {"tail", "join", "done"} => pushed = ItemsOf(Clean(file1))

=============================================================================
